---- MODULE Spec2Model ----
(***************************************************************************)
(* Token lifecycle subsystem of the FM-SetLogger backend:                  *)
(*   Backend/services/token_service.py  (TokenService, get_token_service)  *)
(*   Backend/services/auth_service.py   (AuthService.verify_jwt_token)     *)
(*   Backend/core/config.py             (Settings validators)              *)
(*                                                                         *)
(* Time is counted in ticks, SubSec ticks to the second, so that the       *)
(* integer clock python-jose reads (whole seconds) and the float clock of  *)
(* datetime.utcnow().timestamp() can disagree inside one second.  The host *)
(* clock is taken to run in UTC.  uuid4() is a fresh value per call.       *)
(***************************************************************************)
EXTENDS Integers, Sequences, FiniteSets, TLC

VARIABLES
    clock,        \* wall clock, in ticks
    jumps,        \* number of expiry instants the clock was moved to
    uuids,        \* number of uuid4() values drawn so far
    env,          \* the environment Settings reads (fixed while the process runs)
    cfg,          \* _token_service_instance: the configuration it loaded, NoCfg for None
    slock,        \* holder of _token_service_lock, 0 when free
    bl_families,  \* TokenService._blacklisted_families
    bl_tokens,    \* TokenService._blacklisted_tokens
    lock,         \* holder of TokenService._blacklist_lock, 0 when free
    pc,           \* per thread: position inside the operation it runs
    call,         \* per thread: the running operation and its locals
    last,         \* outcome of the operation that returned in the last step, if one did
    issued,       \* history: every generate_token_pair call that returned: arguments, pair
    rotated       \* history: (old refresh token, pair) of every rotation that returned

vars == <<clock, jumps, uuids, env, cfg, slock, bl_families, bl_tokens, lock, pc, call, last, issued,
          rotated>>

----------------------------------------------------------------------------
(* Bounds of the model *)

SubSec == 2
MaxRevoke == 1
MaxIssue == 3
MaxLogins == 2
MaxJumps == 1
MaxLoginsConc == 1

(* Program constants *)

SecondsPerMinute == 60
SecondsPerDay == 86400
DefaultAccessMinutes == 30
DefaultRefreshDays == 7
MinRefreshDays == 7
MaxRefreshDays == 30
MinSecretLen == 32
MockTokenLifetime == 3600
DefaultBufferMinutes == 5

Threads == {1, 2}
None == "<None>"
Absent == "<absent>"

----------------------------------------------------------------------------
(* Configuration: core/config.py *)

ExampleAccessSecret == "your_super_secret_jwt_key_here"
ExampleRefreshSecret == "your_refresh_token_secret_key_example"

(* len(v) of the secrets the model draws from *)
SecretLen(v) ==
    CASE v = None -> 0
      [] v = "" -> 0
      [] v = "short" -> 5
      [] v = ExampleAccessSecret -> 30
      [] v = ExampleRefreshSecret -> 37
      [] OTHER -> MinSecretLen

Secrets == {None, "short", "KA", "KR", ExampleRefreshSecret}

Envs ==
    [jwt_secret_key : Secrets,
     jwt_refresh_token_secret_key : Secrets,
     jwt_access_token_expire_minutes : {0 - 1, 0, DefaultAccessMinutes, 24 * 60},
     jwt_refresh_token_expire_days : {0, DefaultRefreshDays, MaxRefreshDays + 1},
     testing : BOOLEAN]

DefaultEnv ==
    [jwt_secret_key |-> "KA", jwt_refresh_token_secret_key |-> "KR",
     jwt_access_token_expire_minutes |-> DefaultAccessMinutes,
     jwt_refresh_token_expire_days |-> DefaultRefreshDays,
     testing |-> FALSE]

NoValue(v) == v \in {None, ""}

(* Settings(): the field validators in field order, then the model         *)
(* validator; the value is the text of the first ValueError, or "ok".      *)
validate_jwt_secret_key(e) ==
    LET v == e.jwt_secret_key IN
    IF ~NoValue(v) /\ v = ExampleAccessSecret
    THEN "JWT_SECRET_KEY must be a secure key, not the example value"
    ELSE IF NoValue(v) /\ ~e.testing
    THEN "JWT_SECRET_KEY is required - missing environment variable"
    ELSE "ok"

validate_refresh_token_expire_days(e) ==
    LET v == e.jwt_refresh_token_expire_days IN
    IF v <= 0 THEN "jwt_refresh_token_expire_days must be greater than 0"
    ELSE IF v > MaxRefreshDays
    THEN "jwt_refresh_token_expire_days must be less than or equal to 30"
    ELSE IF v < MinRefreshDays
    THEN "jwt_refresh_token_expire_days must be at least 7 days for security"
    ELSE "ok"

validate_refresh_token_secret_key(e) ==
    LET v == e.jwt_refresh_token_secret_key IN
    IF ~NoValue(v) /\ v = ExampleRefreshSecret /\ ~e.testing
    THEN "JWT_REFRESH_TOKEN_SECRET_KEY example value not allowed in production"
    ELSE IF ~NoValue(v) /\ SecretLen(v) < MinSecretLen
    THEN "jwt_refresh_token_secret_key must be at least 32 characters"
    ELSE IF NoValue(v) /\ ~e.testing
    THEN "JWT_REFRESH_TOKEN_SECRET_KEY is required - missing environment variable"
    ELSE "ok"

validate_different_secrets(e) ==
    IF /\ ~NoValue(e.jwt_secret_key)
       /\ ~NoValue(e.jwt_refresh_token_secret_key)
       /\ e.jwt_secret_key = e.jwt_refresh_token_secret_key
    THEN "Refresh and access token secrets must be different for security"
    ELSE "ok"

Settings(e) ==
    LET errors == <<validate_jwt_secret_key(e),
                    validate_refresh_token_expire_days(e),
                    validate_refresh_token_secret_key(e)>>
        failed == {i \in 1..Len(errors) : errors[i] # "ok"}
    IN  IF failed # {} THEN errors[CHOOSE i \in failed : \A j \in failed : i <= j]
        ELSE validate_different_secrets(e)

(* Mutant: a missing secret is not noticed by the constructor *)
TokenServiceInit_NoSecretCheck(e) ==
    IF Settings(e) # "ok" THEN Settings(e)
    ELSE IF e.jwt_secret_key = e.jwt_refresh_token_secret_key
    THEN "Access and refresh token secrets must be different"
    ELSE "ok"

(* TokenService.__init__: the attributes are read from settings, which      *)
(* validates the environment, then the two checks of the constructor.       *)
TokenServiceInit(e) ==
    IF Settings(e) # "ok" THEN Settings(e)
    ELSE IF NoValue(e.jwt_secret_key) \/ NoValue(e.jwt_refresh_token_secret_key)
    THEN "JWT secrets must be configured"
    ELSE IF e.jwt_secret_key = e.jwt_refresh_token_secret_key
    THEN "Access and refresh token secrets must be different"
    ELSE "ok"

Loaded(e) ==
    [access_secret |-> e.jwt_secret_key,
     refresh_secret |-> e.jwt_refresh_token_secret_key,
     access_minutes |-> e.jwt_access_token_expire_minutes,
     refresh_days |-> e.jwt_refresh_token_expire_days]

DefaultCfg == Loaded(DefaultEnv)

NoCfg == [access_secret |-> None, refresh_secret |-> None,
          access_minutes |-> 0, refresh_days |-> 0]

----------------------------------------------------------------------------
(* Tokens.  A token string is what jwt.encode made of a payload and a key, *)
(* or a string that is no JWT at all.                                      *)

NoClaims ==
    [sub |-> Absent, email |-> Absent, iat |-> 0, exp |-> 0,
     typ |-> Absent, fam |-> Absent, jti |-> Absent]

Encode(payload, key) == [form |-> "jwt", key |-> key, claims |-> payload]

Garbage == [form |-> "garbage", key |-> "", claims |-> NoClaims]
EmptyString == [form |-> "empty", key |-> "", claims |-> NoClaims]
MockToken == [form |-> "mock", key |-> "", claims |-> NoClaims]

Uuid4(n) == "uuid-" \o ToString(n)

NowSeconds == clock \div SubSec

Placeholder(user_id) == "user-" \o user_id \o "@placeholder.com"

AccessPayload(c, user_id, email, now) ==
    [sub |-> user_id, email |-> email, iat |-> now,
     exp |-> now + c.access_minutes * SecondsPerMinute,
     typ |-> "access", fam |-> Absent, jti |-> Absent]

(* Mutant: the refresh payload carries no jti *)
RefreshPayload_NoJti(c, user_id, now, family, jti) ==
    [sub |-> user_id, email |-> Absent, iat |-> now,
     exp |-> now + c.refresh_days * SecondsPerDay,
     typ |-> "refresh", fam |-> family, jti |-> Absent]

RefreshPayload(c, user_id, now, family, jti) ==
    [sub |-> user_id, email |-> Absent, iat |-> now,
     exp |-> now + c.refresh_days * SecondsPerDay,
     typ |-> "refresh", fam |-> family, jti |-> jti]

(* Mutant: the subject is written back in the urn form of the UUID *)
UuidStr_Urn(sub) == "urn:uuid:" \o sub

(* str(UUID(sub)): the text of a UUID in the form str() gives is mapped to  *)
(* itself, the urn form is normalised, text that is no UUID is a ValueError *)
UuidStr(sub) ==
    CASE sub \in {"U1", "U2"} -> sub
      [] sub \in {"urn:uuid:U1", "urn:uuid:U2"} -> SubSeq(sub, 10, Len(sub))
      [] OTHER -> "ValueError"

(* Mutant: the family argument is ignored and every pair opens a family *)
FamilyFor_AlwaysFresh(token_family, n) == Uuid4(n + 1)

(* generate_token_pair: token_family None draws a fresh family id, then the *)
(* refresh payload draws a fresh jti.  n is the number of uuid4() values    *)
(* drawn before the call.                                                   *)
FamilyFor(token_family, n) == IF token_family = None THEN Uuid4(n + 1) ELSE token_family

UuidsDrawn(token_family) == IF token_family = None THEN 2 ELSE 1

(* Mutant: each token is signed with the secret of the other class *)
TokenPair_SwappedSecrets(c, user_id, email, token_family, now, n) ==
    [access_token  |-> Encode(AccessPayload(c, user_id, email, now), c.refresh_secret),
     refresh_token |-> Encode(RefreshPayload(c, user_id, now,
                                  FamilyFor(token_family, n),
                                  Uuid4(n + UuidsDrawn(token_family))),
                              c.access_secret),
     access_expires_in  |-> c.access_minutes * SecondsPerMinute,
     refresh_expires_in |-> c.refresh_days * 24 * 60 * 60,
     token_type |-> "bearer"]

(* Mutant: refresh_expires_in converted as if the TTL were kept in hours *)
TokenPair_RefreshInHours(c, user_id, email, token_family, now, n) ==
    [access_token  |-> Encode(AccessPayload(c, user_id, email, now), c.access_secret),
     refresh_token |-> Encode(RefreshPayload(c, user_id, now,
                                  FamilyFor(token_family, n),
                                  Uuid4(n + UuidsDrawn(token_family))),
                              c.refresh_secret),
     access_expires_in  |-> c.access_minutes * SecondsPerMinute,
     refresh_expires_in |-> c.refresh_days * 60 * 60,
     token_type |-> "bearer"]

TokenPair(c, user_id, email, token_family, now, n) ==
    [access_token  |-> Encode(AccessPayload(c, user_id, email, now), c.access_secret),
     refresh_token |-> Encode(RefreshPayload(c, user_id, now,
                                  FamilyFor(token_family, n),
                                  Uuid4(n + UuidsDrawn(token_family))),
                              c.refresh_secret),
     access_expires_in  |-> c.access_minutes * SecondsPerMinute,
     refresh_expires_in |-> c.refresh_days * 24 * 60 * 60,
     token_type |-> "bearer"]

NoPair ==
    [access_token |-> EmptyString, refresh_token |-> EmptyString,
     access_expires_in |-> 0, refresh_expires_in |-> 0, token_type |-> Absent]

----------------------------------------------------------------------------
(* Per-thread records *)

NoCall == [op |-> "none", tok |-> EmptyString, claims |-> NoClaims, pair |-> NoPair,
           consumed |-> FALSE, revoked |-> FALSE, expired |-> FALSE]

NoRet == [op |-> "none", tok |-> EmptyString, ok |-> FALSE, detail |-> "",
          claims |-> NoClaims, pair |-> NoPair,
          consumed |-> FALSE, revoked |-> FALSE, expired |-> FALSE,
          arg |-> 0, value |-> FALSE]

Init ==
    /\ clock = 0
    /\ jumps = 0
    /\ uuids = 0
    /\ env = DefaultEnv
    /\ cfg = DefaultCfg
    /\ slock = 0
    /\ bl_families = {}
    /\ bl_tokens = {}
    /\ lock = 0
    /\ pc = [t \in Threads |-> "idle"]
    /\ call = [t \in Threads |-> NoCall]
    /\ last = NoRet
    /\ issued = {}
    /\ rotated = {}

----------------------------------------------------------------------------
(* Library decoding.  python-jose jwt.decode verifies the signature first,  *)
(* then the exp claim against the clock in whole seconds; the value is the  *)
(* text of the JWTError it raises, or "ok".                                 *)

(* Mutant: decoding without verifying the signature *)
JoseDecode_NoSignature(tok, key, now, verify_exp) ==
    IF tok.form # "jwt" THEN "Not enough segments"
    ELSE IF verify_exp /\ tok.claims.exp < now THEN "Signature has expired."
    ELSE "ok"

JoseDecode(tok, key, now, verify_exp) ==
    IF tok.form # "jwt" THEN "Not enough segments"
    ELSE IF tok.key # key THEN "Signature verification failed."
    ELSE IF verify_exp /\ tok.claims.exp < now THEN "Signature has expired."
    ELSE "ok"

(* needle in str(e), for the texts the handlers look for *)
Contains(msg, needle) ==
    \/ msg = needle
    \/ needle = "Signature verification failed" /\ msg = "Signature verification failed."

(* PyJWT jwt.decode as AuthService calls it: signature, then exp.  Releases *)
(* differ on whether a token is still accepted inside its exp second:       *)
(* lenient is the choice a build makes there.                               *)
PyJwtDecode(tok, key, lenient) ==
    IF tok.form # "jwt" THEN "DecodeError"
    ELSE IF tok.key # key THEN "InvalidSignatureError"
    ELSE IF tok.claims.exp < NowSeconds THEN "ExpiredSignatureError"
    ELSE IF ~lenient /\ tok.claims.exp * SubSec <= clock THEN "ExpiredSignatureError"
    ELSE "ok"

Falsy(v) == v \in {Absent, None, ""}

(* Mutant: the entry is not recorded *)
BlacklistAdd_Dropped(set, x) == set

(* the blacklist sets: set.add(x) and x in set, under the lock *)
BlacklistAdd(set, x) == set \cup {x}

IsBlacklisted(set, x) == x \in set

----------------------------------------------------------------------------
(* verify_refresh_token: the except clauses.  Whatever the try body raises  *)
(* goes through them, the HTTPExceptions the body raises itself included    *)
(* (HTTPException is an Exception and no clause re-raises it).              *)

(* Mutant: the generic handler reports str(e) of an exception without text *)
VerifyHandler_NoText(exc, msg) ==
    IF exc = "JWTError"
    THEN IF Contains(msg, "Signature verification failed") THEN "Invalid token signature"
         ELSE IF Contains(msg, "Token is expired") THEN "Refresh token has expired"
         ELSE "Invalid refresh token format"
    ELSE ""

VerifyHandler(exc, msg) ==
    IF exc = "JWTError"
    THEN IF Contains(msg, "Signature verification failed") THEN "Invalid token signature"
         ELSE IF Contains(msg, "Token is expired") THEN "Refresh token has expired"
         ELSE "Invalid refresh token format"
    ELSE "Token validation failed"

(* The error classes of the taxonomy, by the detail a caller receives *)
Outcome(detail) ==
    CASE detail = "Invalid token signature" -> "SignatureInvalid"
      [] detail = "Refresh token has expired" -> "Expired"
      [] detail = "Token has expired" -> "Expired"
      [] detail = "Invalid refresh token format" -> "Malformed"
      [] detail = "Invalid token format" -> "Malformed"
      [] detail = "Invalid token type for refresh operation" -> "WrongType"
      [] detail = "Token has been revoked" -> "Blacklisted"
      [] OTHER -> "Unclassified"

----------------------------------------------------------------------------
(* Inputs *)

(* every TokenPairResponse handed out so far *)
pairs == {i.pair : i \in issued}

IssuedRefresh == {p.refresh_token : p \in pairs}
IssuedAccess == {p.access_token : p \in pairs}

Forged == Encode(RefreshPayload(DefaultCfg, "U1", 0, "", "uuid-x"), "K-other")

TokenInputs == IssuedRefresh \cup IssuedAccess \cup {Garbage, EmptyString, MockToken, Forged}

FamilyInputs == {p.refresh_token.claims.fam : p \in pairs} \cup {""}

(* identities handed in by the login step: one whose email happens to have *)
(* the form rotate_refresh_token makes up, one whose email has not         *)
Identities == {<<"U1", "a@example.com">>, <<"U2", Placeholder("U2")>>}

(* Pairs already returned plus pairs that rotations under way will ask for *)
Reserved == Cardinality(issued) + Cardinality({t \in Threads : call[t].op = "rotate"})

(* blacklist entries made by blacklist_token / blacklist_token_family calls *)
(* of request handlers, as opposed to those rotations made                 *)
Revocations ==
    Cardinality(bl_families) + Cardinality(bl_tokens \ {r.old : r \in rotated})
    + Cardinality({t \in Threads : call[t].op \in {"blacklist_token", "blacklist_token_family"}})

(* The caller of an operation that returned has taken its result *)
Collected == last = NoRet

Collect ==
    /\ ~Collected
    /\ last' = NoRet
    /\ UNCHANGED <<clock, jumps, uuids, env, cfg, slock, bl_families, bl_tokens, lock, pc, call, issued, rotated>>

(* Mutant: rotation reports failures of the verification in its own words *)
RotatePropagate_Wrapped(detail) == "Token rotation failed"

(* rotate_refresh_token has no try block: what verify_refresh_token raises  *)
(* reaches the caller of the rotation as it is                              *)
RotatePropagate(detail) == detail

Raised(op, detail) == IF op = "rotate" THEN RotatePropagate(detail) ELSE detail

Fail(t, detail) ==
    /\ last' =
                 [op |-> call[t].op, tok |-> call[t].tok, ok |-> FALSE,
                  detail |-> Raised(call[t].op, detail),
                  claims |-> NoClaims, pair |-> NoPair,
                  consumed |-> call[t].consumed, revoked |-> call[t].revoked,
                  expired |-> call[t].expired, arg |-> 0, value |-> FALSE]
    /\ call' = [call EXCEPT ![t] = NoCall]
    /\ pc' = [pc EXCEPT ![t] = "idle"]

Succeed(t, claims, pair) ==
    /\ last' =
                 [op |-> call[t].op, tok |-> call[t].tok, ok |-> TRUE, detail |-> "",
                  claims |-> claims, pair |-> pair,
                  consumed |-> call[t].consumed, revoked |-> call[t].revoked,
                  expired |-> call[t].expired, arg |-> 0, value |-> FALSE]
    /\ call' = [call EXCEPT ![t] = NoCall]
    /\ pc' = [pc EXCEPT ![t] = "idle"]

----------------------------------------------------------------------------
(* Time *)

(* Time moves on inside the second in which a token in circulation expires, *)
(* up to the start of the next second: the instants at which the whole-     *)
(* second clock and the float clock give different answers about that token *)
Tick ==
    /\ Collected
    /\ \E tok \in IssuedRefresh \cup IssuedAccess : tok.claims.exp = NowSeconds
    /\ clock' = clock + 1
    /\ UNCHANGED <<jumps, uuids, env, cfg, slock, bl_families, bl_tokens, lock, pc, call, last, issued, rotated>>

(* The clock reaches the expiry instant of a token in circulation *)
Jump ==
    /\ Collected
    /\ \E tok \in IssuedRefresh \cup IssuedAccess :
          /\ tok.claims.exp * SubSec > clock
          /\ clock' = tok.claims.exp * SubSec
    /\ jumps < MaxJumps
    /\ jumps' = jumps + 1
    /\ UNCHANGED <<uuids, env, cfg, slock, bl_families, bl_tokens, lock, pc, call, last, issued, rotated>>

----------------------------------------------------------------------------
(* generate_token_pair, called by a request handler *)

GenerateTokenPair(t, logins) ==
    /\ Collected
    /\ pc[t] = "idle"
    /\ cfg # NoCfg
    /\ Reserved < MaxIssue
    /\ Cardinality(issued) - Cardinality(rotated) < logins
    /\ \E id \in Identities, token_family \in {None} \cup FamilyInputs :
          LET user_id == id[1]
              email == id[2]
              pair == TokenPair(cfg, user_id, email, token_family, NowSeconds, uuids) IN
          /\ issued' = issued \cup {[user_id |-> user_id, email |-> email, pair |-> pair]}
          /\ uuids' = uuids + UuidsDrawn(token_family)
          /\ last' = [NoRet EXCEPT !.op = "generate", !.ok = TRUE, !.pair = pair,
                                     !.claims = [NoClaims EXCEPT !.sub = user_id,
                                                                 !.email = email]]
    /\ UNCHANGED <<clock, jumps, env, cfg, slock, bl_families, bl_tokens, lock, pc, call, rotated>>

----------------------------------------------------------------------------
(* verify_refresh_token, on its own or as the first statement of            *)
(* rotate_refresh_token.  Entry: decode and the token_type test.            *)

VerifyEnter(t) ==
    /\ Collected
    /\ pc[t] = "idle"
    /\ \E tok \in TokenInputs, op \in {"verify", "rotate"} :
          /\ op = "rotate" => Reserved < MaxIssue
          /\ LET msg == JoseDecode(tok, cfg.refresh_secret, NowSeconds, TRUE)
                 c == [NoCall EXCEPT !.op = op, !.tok = tok, !.claims = tok.claims,
                                     !.consumed = \E r \in rotated : r.old = tok,
                                     !.revoked = tok.claims.fam \in bl_families,
                                     !.expired = clock > tok.claims.exp * SubSec]
             IN  IF msg # "ok" \/ tok.claims.typ # "refresh"
                 THEN /\ last' =
                            [NoRet EXCEPT !.op = op, !.tok = tok,
                               !.consumed = c.consumed, !.revoked = c.revoked,
                               !.expired = c.expired,
                               !.detail = Raised(op,
                                          IF msg # "ok" THEN VerifyHandler("JWTError", msg)
                                          ELSE VerifyHandler("HTTPException",
                                                 "Invalid token type for refresh operation"))]
                      /\ UNCHANGED <<pc, call>>
                 ELSE /\ call' = [call EXCEPT ![t] = c]
                      /\ pc' = [pc EXCEPT ![t] =
                                  IF Falsy(tok.claims.fam) THEN "v_tok" ELSE "v_fam"]
                      /\ UNCHANGED last
    /\ UNCHANGED <<clock, jumps, uuids, env, cfg, slock, bl_families, bl_tokens, lock, issued, rotated>>

(* Mutant: the block is entered whether or not the lock is free *)
Acquire_NoExclusion(t) ==
    /\ Collected
    /\ pc[t] \in {"v_fam", "v_tok", "r_bl", "b_tok", "b_fam"}
    /\ lock' = t
    /\ pc' = [pc EXCEPT ![t] = pc[t] \o "_cs"]
    /\ UNCHANGED <<clock, jumps, uuids, env, cfg, slock, bl_families, bl_tokens, call, last, issued, rotated>>

(* with self._blacklist_lock: entering the block *)
Acquire(t) ==
    /\ Collected
    /\ pc[t] \in {"v_fam", "v_tok", "r_bl", "b_tok", "b_fam"}
    /\ lock = 0
    /\ lock' = t
    /\ pc' = [pc EXCEPT ![t] = pc[t] \o "_cs"]
    /\ UNCHANGED <<clock, jumps, uuids, env, cfg, slock, bl_families, bl_tokens, call, last, issued, rotated>>

(* Mutant: the revoked-family error leaves the block without releasing *)
VerifyFamily_KeepsLockOnError(t) ==
    /\ Collected
    /\ pc[t] = "v_fam_cs"
    /\ IF IsBlacklisted(bl_families, call[t].claims.fam)
       THEN /\ Fail(t, VerifyHandler("HTTPException", "Token has been revoked"))
            /\ UNCHANGED lock
       ELSE /\ pc' = [pc EXCEPT ![t] = "v_tok"]
            /\ lock' = 0
            /\ UNCHANGED <<call, last>>
    /\ UNCHANGED <<clock, jumps, uuids, env, cfg, slock, bl_families, bl_tokens, issued, rotated>>

(* is_token_family_blacklisted(token_family) inside verify_refresh_token *)
VerifyFamily(t) ==
    /\ Collected
    /\ pc[t] = "v_fam_cs"
    /\ lock' = 0
    /\ IF IsBlacklisted(bl_families, call[t].claims.fam)
       THEN Fail(t, VerifyHandler("HTTPException", "Token has been revoked"))
       ELSE /\ pc' = [pc EXCEPT ![t] = "v_tok"]
            /\ UNCHANGED <<call, last>>
    /\ UNCHANGED <<clock, jumps, uuids, env, cfg, slock, bl_families, bl_tokens, issued, rotated>>

(* Mutant: presenting a blacklisted token revokes its family *)
VerifyToken_ReplayRevokes(t) ==
    /\ Collected
    /\ pc[t] = "v_tok_cs"
    /\ lock' = 0
    /\ IF IsBlacklisted(bl_tokens, call[t].tok)
       THEN /\ Fail(t, VerifyHandler("HTTPException", "Token has been revoked"))
            /\ bl_families' = BlacklistAdd(bl_families, call[t].claims.fam)
       ELSE /\ pc' = [pc EXCEPT ![t] = "v_exp"]
            /\ UNCHANGED <<call, last, bl_families>>
    /\ UNCHANGED <<clock, jumps, uuids, env, cfg, slock, bl_tokens, issued, rotated>>

(* is_token_blacklisted(refresh_token) inside verify_refresh_token *)
VerifyToken(t) ==
    /\ Collected
    /\ pc[t] = "v_tok_cs"
    /\ lock' = 0
    /\ IF IsBlacklisted(bl_tokens, call[t].tok)
       THEN Fail(t, VerifyHandler("HTTPException", "Token has been revoked"))
       ELSE /\ pc' = [pc EXCEPT ![t] = "v_exp"]
            /\ UNCHANGED <<call, last>>
    /\ UNCHANGED <<clock, jumps, uuids, env, cfg, slock, bl_families, bl_tokens, issued, rotated>>

(* the second look at exp, against the float clock; then return payload *)
VerifyExpiry(t) ==
    /\ Collected
    /\ pc[t] = "v_exp"
    /\ IF clock > call[t].claims.exp * SubSec
       THEN Fail(t, VerifyHandler("HTTPException", "Refresh token has expired"))
       ELSE IF call[t].op = "verify"
       THEN Succeed(t, call[t].claims, NoPair)
       ELSE /\ pc' = [pc EXCEPT ![t] = "r_gen"]
            /\ UNCHANGED <<call, last>>
    /\ UNCHANGED <<clock, jumps, uuids, env, cfg, slock, bl_families, bl_tokens, lock, issued, rotated>>

----------------------------------------------------------------------------
(* rotate_refresh_token after the verification *)

RotateGenerate(t) ==
    /\ Collected
    /\ pc[t] = "r_gen"
    /\ LET user_id == UuidStr(call[t].claims.sub)
           old_family == call[t].claims.fam
           pair == TokenPair(cfg, user_id, Placeholder(user_id),
                             IF old_family = Absent THEN None ELSE old_family,
                             NowSeconds, uuids)
       IN  IF user_id = "ValueError"
           THEN /\ Fail(t, "ValueError: badly formed hexadecimal UUID string")
                /\ UNCHANGED uuids
           ELSE /\ call' = [call EXCEPT ![t].pair = pair]
                /\ uuids' = uuids + UuidsDrawn(IF old_family = Absent THEN None ELSE old_family)
                /\ pc' = [pc EXCEPT ![t] = "r_bl"]
                /\ UNCHANGED last
    /\ UNCHANGED <<clock, jumps, env, cfg, slock, bl_families, bl_tokens, lock, issued, rotated>>

(* Mutant: the new pair is returned without blacklisting the old token *)
RotateBlacklist_NotBlacklisted(t) ==
    /\ Collected
    /\ pc[t] = "r_bl_cs"
    /\ lock' = 0
    /\ issued' = issued \cup {[user_id |-> call[t].claims.sub,
                              email |-> Placeholder(call[t].claims.sub),
                              pair |-> call[t].pair]}
    /\ rotated' = rotated \cup {[old |-> call[t].tok, pair |-> call[t].pair]}
    /\ Succeed(t, call[t].claims, call[t].pair)
    /\ UNCHANGED <<clock, jumps, uuids, env, cfg, slock, bl_families, bl_tokens>>

(* Mutant: a rotation also revokes the family of the presented token *)
RotateBlacklist_RevokesFamily(t) ==
    /\ Collected
    /\ pc[t] = "r_bl_cs"
    /\ lock' = 0
    /\ bl_tokens' = BlacklistAdd(bl_tokens, call[t].tok)
    /\ bl_families' = BlacklistAdd(bl_families, call[t].claims.fam)
    /\ issued' = issued \cup {[user_id |-> call[t].claims.sub,
                              email |-> Placeholder(call[t].claims.sub),
                              pair |-> call[t].pair]}
    /\ rotated' = rotated \cup {[old |-> call[t].tok, pair |-> call[t].pair]}
    /\ Succeed(t, call[t].claims, call[t].pair)
    /\ UNCHANGED <<clock, jumps, uuids, env, cfg, slock>>

(* blacklist_token(old_refresh_token), then return new_token_pair *)
RotateBlacklist(t) ==
    /\ Collected
    /\ pc[t] = "r_bl_cs"
    /\ lock' = 0
    /\ bl_tokens' = BlacklistAdd(bl_tokens, call[t].tok)
    /\ issued' = issued \cup {[user_id |-> call[t].claims.sub,
                              email |-> Placeholder(call[t].claims.sub),
                              pair |-> call[t].pair]}
    /\ rotated' = rotated \cup {[old |-> call[t].tok, pair |-> call[t].pair]}
    /\ Succeed(t, call[t].claims, call[t].pair)
    /\ UNCHANGED <<clock, jumps, uuids, env, cfg, slock, bl_families>>

----------------------------------------------------------------------------
(* blacklist_token and blacklist_token_family, called by a request handler *)

BlacklistEnter(t) ==
    /\ Collected
    /\ pc[t] = "idle"
    /\ Revocations < MaxRevoke
    /\ \/ \E tok \in IssuedRefresh :
             /\ call' = [call EXCEPT ![t] = [NoCall EXCEPT !.op = "blacklist_token",
                                                           !.tok = tok]]
             /\ pc' = [pc EXCEPT ![t] = "b_tok"]
       \/ \E f \in FamilyInputs :
             /\ call' = [call EXCEPT ![t] = [NoCall EXCEPT !.op = "blacklist_token_family",
                                                           !.claims = [NoClaims EXCEPT !.fam = f]]]
             /\ pc' = [pc EXCEPT ![t] = "b_fam"]
    /\ UNCHANGED <<clock, jumps, uuids, env, cfg, slock, bl_families, bl_tokens, lock, last, issued, rotated>>

BlacklistToken(t) ==
    /\ Collected
    /\ pc[t] = "b_tok_cs"
    /\ lock' = 0
    /\ bl_tokens' = BlacklistAdd(bl_tokens, call[t].tok)
    /\ Succeed(t, NoClaims, NoPair)
    /\ UNCHANGED <<clock, jumps, uuids, env, cfg, slock, bl_families, issued, rotated>>

BlacklistTokenFamily(t) ==
    /\ Collected
    /\ pc[t] = "b_fam_cs"
    /\ lock' = 0
    /\ bl_families' = BlacklistAdd(bl_families, call[t].claims.fam)
    /\ Succeed(t, call[t].claims, NoPair)
    /\ UNCHANGED <<clock, jumps, uuids, env, cfg, slock, bl_tokens, issued, rotated>>

(* cleanup_expired_blacklist_entries: the body is pass, no entry is removed *)
CleanupExpiredBlacklistEntries(t) ==
    /\ Collected
    /\ pc[t] = "idle"
    /\ last' = [NoRet EXCEPT !.op = "cleanup", !.ok = TRUE]
    /\ UNCHANGED <<clock, jumps, uuids, env, cfg, slock, bl_families, bl_tokens, lock, pc, call,
                   issued, rotated>>

----------------------------------------------------------------------------
(* is_token_near_expiry *)

(* Mutant: a token expiring exactly at the end of the buffer is not near *)
NearExpiry_Strict(tok, buffer_minutes) ==
    IF /\ JoseDecode(tok, cfg.access_secret, NowSeconds, FALSE) # "ok"
       /\ JoseDecode(tok, cfg.refresh_secret, NowSeconds, FALSE) # "ok"
    THEN TRUE
    ELSE tok.claims.exp * SubSec < clock + buffer_minutes * SecondsPerMinute * SubSec

(* decode with the access secret, on JWTError with the refresh secret, exp  *)
(* not verified; a second JWTError ends in the outer except: return True.   *)
(* Otherwise expires_at <= utcnow() + timedelta(minutes=buffer_minutes).    *)
NearExpiry(tok, buffer_minutes) ==
    IF /\ JoseDecode(tok, cfg.access_secret, NowSeconds, FALSE) # "ok"
       /\ JoseDecode(tok, cfg.refresh_secret, NowSeconds, FALSE) # "ok"
    THEN TRUE
    ELSE tok.claims.exp * SubSec <= clock + buffer_minutes * SecondsPerMinute * SubSec

(* _create_token_with_custom_expiry({'sub': ...}, minutes), called now *)
CustomExpiryToken(minutes) ==
    Encode([NoClaims EXCEPT !.sub = "U1", !.iat = NowSeconds,
                            !.exp = NowSeconds + minutes * SecondsPerMinute],
           cfg.access_secret)

CustomMinutes == {4, 20}

BufferInputs == {0 - 1, DefaultBufferMinutes, DefaultAccessMinutes - 1, DefaultAccessMinutes}

IsTokenNearExpiry(t) ==
    /\ Collected
    /\ pc[t] = "idle"
    /\ \E tok \in TokenInputs \cup {CustomExpiryToken(m) : m \in CustomMinutes},
          buffer_minutes \in BufferInputs :
          last' = [NoRet EXCEPT !.op = "near_expiry", !.tok = tok, !.ok = TRUE,
                                !.arg = buffer_minutes,
                                !.value = NearExpiry(tok, buffer_minutes)]
    /\ UNCHANGED <<clock, jumps, uuids, env, cfg, slock, bl_families, bl_tokens, lock, pc, call,
                   issued, rotated>>

----------------------------------------------------------------------------
(* extract_token_metadata *)

(* the secret of the class: access for 'access', refresh for anything else *)
ClassSecret(token_type) ==
    IF token_type = "access" THEN cfg.access_secret ELSE cfg.refresh_secret

(* Mutant: the decode enforces exp *)
MetadataDecode_VerifiesExp(tok, token_type) ==
    JoseDecode(tok, ClassSecret(token_type), NowSeconds, TRUE)

(* jwt.decode with options verify_exp False *)
MetadataDecode(tok, token_type) ==
    JoseDecode(tok, ClassSecret(token_type), NowSeconds, FALSE)

(* datetime.fromtimestamp(seconds): an instant, in ticks *)
FromTimestamp(seconds) == seconds * SubSec

(* the metadata dict, in the fields of a claims record: sub is user_id, iat *)
(* issued_at, exp expires_at, typ token_type, email / fam by class          *)
Metadata(tok, token_type) ==
    [NoClaims EXCEPT !.sub = tok.claims.sub,
                     !.exp = FromTimestamp(tok.claims.exp),
                     !.iat = FromTimestamp(tok.claims.iat),
                     !.typ = IF tok.claims.typ = Absent THEN token_type ELSE tok.claims.typ,
                     !.email = IF token_type = "access" THEN tok.claims.email ELSE Absent,
                     !.fam = IF token_type = "access" THEN Absent ELSE tok.claims.fam]

ClassInputs == {"access", "refresh", "other"}

ExtractTokenMetadata(t) ==
    /\ Collected
    /\ pc[t] = "idle"
    /\ \E tok \in TokenInputs, token_type \in ClassInputs :
          LET msg == MetadataDecode(tok, token_type) IN
          last' = [NoRet EXCEPT !.op = "metadata_" \o token_type, !.tok = tok,
                      !.ok = (msg = "ok"),
                      !.detail = IF msg = "ok" THEN ""
                                 ELSE "Could not extract token metadata: " \o msg,
                      !.claims = IF msg = "ok" THEN Metadata(tok, token_type) ELSE NoClaims]
    /\ UNCHANGED <<clock, jumps, uuids, env, cfg, slock, bl_families, bl_tokens, lock, pc, call,
                   issued, rotated>>

----------------------------------------------------------------------------
(* AuthService.verify_jwt_token *)

(* Mutant: access verification refuses a token whose pair was revoked *)
VerifyJwtDetail_LooksAtRegistry(tok, lenient) ==
    IF tok.form = "empty" THEN "Token is required"
    ELSE IF tok.form = "mock" THEN "ok"
    ELSE LET exc == PyJwtDecode(tok, cfg.access_secret, lenient) IN
         IF exc = "ExpiredSignatureError" THEN "Token has expired"
         ELSE IF exc # "ok" THEN "Invalid token format"
         ELSE IF tok.claims.email = Absent THEN "Token validation failed"
         ELSE IF \E p \in pairs : /\ p.access_token = tok
                                  /\ \/ p.refresh_token \in bl_tokens
                                     \/ p.refresh_token.claims.fam \in bl_families
         THEN "Token has been revoked"
         ELSE "ok"

VerifyJwtDetail(tok, lenient) ==
    IF tok.form = "empty" THEN "Token is required"
    ELSE IF tok.form = "mock" THEN "ok"
    ELSE LET exc == PyJwtDecode(tok, cfg.access_secret, lenient) IN
         IF exc = "ExpiredSignatureError" THEN "Token has expired"
         ELSE IF exc # "ok" THEN "Invalid token format"
         ELSE IF tok.claims.email = Absent THEN "Token validation failed"
         ELSE "ok"

MockPayload ==
    [NoClaims EXCEPT !.sub = "550e8400-e29b-41d4-a716-446655440000",
                     !.email = "test@example.com",
                     !.iat = NowSeconds, !.exp = NowSeconds + MockTokenLifetime]

VerifyJwtToken(t) ==
    /\ Collected
    /\ pc[t] = "idle"
    /\ \E tok \in TokenInputs, lenient \in BOOLEAN :
          LET detail == VerifyJwtDetail(tok, lenient) IN
          last' =
                    [NoRet EXCEPT !.op = "verify_jwt", !.tok = tok,
                       !.ok = (detail = "ok"),
                       !.detail = IF detail = "ok" THEN "" ELSE detail,
                       !.claims = IF detail # "ok" THEN NoClaims
                                  ELSE IF tok.form = "mock" THEN MockPayload
                                  ELSE [NoClaims EXCEPT !.sub = tok.claims.sub,
                                                        !.email = tok.claims.email,
                                                        !.iat = tok.claims.iat,
                                                        !.exp = tok.claims.exp]]
    /\ UNCHANGED <<clock, jumps, uuids, env, cfg, slock, bl_families, bl_tokens, lock, pc, call, issued,
                   rotated>>

----------------------------------------------------------------------------
(* get_token_service *)

(* Mutant: no second test inside the lock *)
InstanceExists_NotLooked(c) == FALSE

(* _token_service_instance is None, negated *)
InstanceExists(c) == c # NoCfg

ServiceResult(op, detail) ==
    [NoRet EXCEPT !.op = op, !.ok = (detail = "ok"),
                  !.detail = IF detail = "ok" THEN "" ELSE detail]

(* if _token_service_instance is None, outside the lock *)
GetServiceEnter(t) ==
    /\ Collected
    /\ pc[t] = "idle"
    /\ IF InstanceExists(cfg)
       THEN /\ last' = ServiceResult("get_token_service", "ok")
            /\ UNCHANGED pc
       ELSE /\ pc' = [pc EXCEPT ![t] = "g_lock"]
            /\ UNCHANGED last
    /\ UNCHANGED <<clock, jumps, uuids, env, cfg, slock, bl_families, bl_tokens, lock, call,
                   issued, rotated>>

(* with _token_service_lock *)
GetServiceAcquire(t) ==
    /\ Collected
    /\ pc[t] = "g_lock"
    /\ slock = 0
    /\ slock' = t
    /\ pc' = [pc EXCEPT ![t] = "g_cs"]
    /\ UNCHANGED <<clock, jumps, uuids, env, cfg, bl_families, bl_tokens, lock, call, last,
                   issued, rotated>>

(* the second test and TokenService(); an exception of the constructor     *)
(* leaves the with block, releasing the lock, and reaches the caller.  A   *)
(* constructed instance starts with empty blacklists; value records that   *)
(* this call constructed the instance it returns.                          *)
GetServiceConstruct(t) ==
    /\ Collected
    /\ pc[t] = "g_cs"
    /\ slock' = 0
    /\ pc' = [pc EXCEPT ![t] = "idle"]
    /\ IF InstanceExists(cfg)
       THEN /\ last' = ServiceResult("get_token_service", "ok")
            /\ UNCHANGED <<cfg, bl_families, bl_tokens>>
       ELSE /\ last' = [ServiceResult("get_token_service", TokenServiceInit(env))
                           EXCEPT !.value = (TokenServiceInit(env) = "ok")]
            /\ cfg' = IF TokenServiceInit(env) = "ok" THEN Loaded(env) ELSE NoCfg
            /\ IF TokenServiceInit(env) = "ok"
               THEN bl_families' = {} /\ bl_tokens' = {}
               ELSE UNCHANGED <<bl_families, bl_tokens>>
    /\ UNCHANGED <<clock, jumps, uuids, env, lock, call, issued, rotated>>

GetTokenService(t) ==
    \/ GetServiceEnter(t)
    \/ GetServiceAcquire(t)
    \/ GetServiceConstruct(t)

----------------------------------------------------------------------------

Step(t, logins) ==
    \/ GenerateTokenPair(t, logins)
    \/ VerifyEnter(t)
    \/ Acquire(t)
    \/ VerifyFamily(t)
    \/ VerifyToken(t)
    \/ VerifyExpiry(t)
    \/ RotateGenerate(t)
    \/ RotateBlacklist(t)
    \/ BlacklistEnter(t)
    \/ BlacklistToken(t)
    \/ BlacklistTokenFamily(t)
    \/ CleanupExpiredBlacklistEntries(t)
    \/ VerifyJwtToken(t)

(* One request handler at a time *)
Next ==
    \/ Tick
    \/ Jump
    \/ Collect
    \/ Step(1, MaxLogins)

(* Request handlers running concurrently, within one second of the clock,  *)
(* with MaxLoginsConc generate_token_pair calls made by the login step      *)
NextConc ==
    \/ Collect
    \/ \E t \in Threads : Step(t, MaxLoginsConc)

SpecConc == Init /\ [][NextConc]_vars

(* Start of the process: any environment, no TokenService yet *)
InitConfig ==
    /\ clock = 0
    /\ jumps = 0
    /\ uuids = 0
    /\ env \in Envs
    /\ cfg = NoCfg
    /\ slock = 0
    /\ bl_families = {}
    /\ bl_tokens = {}
    /\ lock = 0
    /\ pc = [t \in Threads |-> "idle"]
    /\ call = [t \in Threads |-> NoCall]
    /\ last = NoRet
    /\ issued = {}
    /\ rotated = {}

NextConfig ==
    \/ Collect
    \/ GetTokenService(1)
    \/ GenerateTokenPair(1, MaxLoginsConc)

SpecConfig == InitConfig /\ [][NextConfig]_vars

(* Start of the process with request threads asking for the service *)
NextService ==
    \/ Collect
    \/ \E t \in Threads : GetTokenService(t)

SpecService == InitConfig /\ [][NextService]_vars

Spec == Init /\ [][Next]_vars

(* Tokens handed out, time passing, and is_token_near_expiry asked *)
NextExpiry ==
    \/ Tick
    \/ Jump
    \/ Collect
    \/ GenerateTokenPair(1, MaxLogins)
    \/ IsTokenNearExpiry(1)

SpecExpiry == Init /\ [][NextExpiry]_vars

(* Tokens handed out, blacklisted, time passing, and metadata asked for *)
NextMetadata ==
    \/ Tick
    \/ Jump
    \/ Collect
    \/ GenerateTokenPair(1, MaxLogins)
    \/ BlacklistEnter(1)
    \/ Acquire(1)
    \/ BlacklistToken(1)
    \/ BlacklistTokenFamily(1)
    \/ ExtractTokenMetadata(1)

SpecMetadata == Init /\ [][NextMetadata]_vars

(* Request handlers of a starting process: each obtains the service with   *)
(* get_token_service and calls it, concurrently with the others.  The       *)
(* environment is the default one or one the constructor refuses.           *)
LiveEnvs == {DefaultEnv, [DefaultEnv EXCEPT !.jwt_refresh_token_expire_days = 0]}

InitLive == InitConfig /\ env \in LiveEnvs

ServiceCall(t) ==
    /\ InstanceExists(cfg)
    /\ \/ GenerateTokenPair(t, MaxLoginsConc)
       \/ VerifyEnter(t)
       \/ Acquire(t)
       \/ VerifyFamily(t)
       \/ VerifyToken(t)
       \/ VerifyExpiry(t)
       \/ RotateGenerate(t)
       \/ RotateBlacklist(t)
       \/ BlacklistEnter(t)
       \/ BlacklistToken(t)
       \/ BlacklistTokenFamily(t)

(* the next statement of a call thread t has started *)
Progress(t) == pc[t] # "idle" /\ (ServiceCall(t) \/ GetTokenService(t))

NextLive ==
    \/ Collect
    \/ \E t \in Threads : ServiceCall(t)
    \/ \E t \in Threads : GetTokenService(t)

(* Fair scheduling: a result is handed to the caller, and a thread whose   *)
(* next statement can run again and again (a lock free again and again)    *)
(* does run it.                                                            *)
SpecLive ==
    /\ InitLive
    /\ [][NextLive]_vars
    /\ WF_vars(Collect)
    /\ \A t \in Threads : SF_vars(Progress(t))

(* Every operation of the service on one instance, one request at a time *)
NextFrame ==
    \/ Next
    \/ ExtractTokenMetadata(1)
    \/ IsTokenNearExpiry(1)

SpecFrame == Init /\ [][NextFrame]_vars

----------------------------------------------------------------------------
(* Properties.  last holds the outcome of the operation that returned in    *)
(* the step just taken; its consumed / revoked / expired fields say what    *)
(* was true of the presented token when that operation was called.          *)

RefreshOps == {"verify", "rotate"}

(* C1: of two concurrent rotate_refresh_token(T) calls for the same valid   *)
(* token T at most one returns a pair: no token string is the old token of  *)
(* two rotations that returned.                                             *)
C1_OneRotationWins ==
    \A r1, r2 \in rotated : r1.old = r2.old => r1 = r2

(* C2: once rotate_refresh_token(T) has returned a pair, every later        *)
(* verify_refresh_token(T) and rotate_refresh_token(T) fails, whatever was  *)
(* done in between, and no token string drives two rotations.               *)
C2_ConsumedStaysDead ==
    /\ (last.op \in RefreshOps /\ last.consumed) => ~last.ok
    /\ \A r1, r2 \in rotated : r1.old = r2.old => r1 = r2

C2_Witness ==
    /\ last.op = "rotate" /\ last.consumed /\ ~last.ok
    /\ bl_families # {}
    /\ jumps > 0

(* C3: the failure reported for a token consumed by an earlier rotation is  *)
(* the Blacklisted outcome ("Token has been revoked").                      *)
C3_ConsumedReportsBlacklisted ==
    (last.op \in RefreshOps /\ last.consumed) =>
        (~last.ok /\ Outcome(last.detail) = "Blacklisted")

(* C4: a rotation returns a refresh token of the family of the token it     *)
(* consumed, so the family is the same along a chain of rotations.          *)
C4_FamilyStable ==
    \A r \in rotated : r.pair.refresh_token.claims.fam = r.old.claims.fam

C4_Witness ==
    \E r1, r2 \in rotated :
        /\ r2.old = r1.pair.refresh_token
        /\ r1.old.claims.fam # ""

(* C5: after blacklist_token_family(F) every verification and rotation of   *)
(* a refresh token of family F fails, whenever the token was issued.        *)
C5_RevokedFamilyRejected ==
    (last.op \in RefreshOps /\ last.revoked) => ~last.ok

(* C5 for family ids that are not the empty string *)
C5_RevokedNonEmptyFamilyRejected ==
    (last.op \in RefreshOps /\ last.revoked /\ last.tok.claims.fam # "") => ~last.ok

(* a token handed out by a generate_token_pair call that named a family     *)
(* already in use, presented after the family was revoked                   *)
C5_Witness ==
    /\ last.op \in RefreshOps /\ last.revoked /\ last.tok.claims.fam # ""
    /\ \A r \in rotated : r.pair.refresh_token # last.tok
    /\ \E i \in issued : /\ i.pair.refresh_token # last.tok
                         /\ i.pair.refresh_token.claims.fam = last.tok.claims.fam

(* C6: the tokens of a pair generate_token_pair returned verify, each in    *)
(* its class, and report the user_id the pair was generated for, as long    *)
(* as they are unexpired and nothing of the family is blacklisted.          *)
Unexpired(tok) == clock < tok.claims.exp * SubSec

C6_IssuedPairVerifies ==
    \A i \in issued :
        /\ (last.op = "verify_jwt" /\ last.tok = i.pair.access_token /\ Unexpired(last.tok))
              => (last.ok /\ last.claims.sub = i.user_id)
        /\ (/\ last.op = "verify"
            /\ last.tok = i.pair.refresh_token
            /\ Unexpired(last.tok)
            /\ last.tok \notin bl_tokens
            /\ last.tok.claims.fam \notin bl_families)
              => (last.ok /\ last.claims.sub = i.user_id)

C6_Witness ==
    /\ last.op = "verify" /\ last.ok
    /\ \E i \in issued : i.pair.refresh_token = last.tok /\ i.user_id = "U2"
    /\ bl_tokens # {}

(* C7: an access token presented to verify_refresh_token and a refresh      *)
(* token presented to verify_jwt_token fail, with the WrongType outcome.    *)
C7_CrossClassIsWrongType ==
    /\ (last.op \in RefreshOps /\ last.tok \in IssuedAccess)
          => (~last.ok /\ Outcome(last.detail) = "WrongType")
    /\ (last.op = "verify_jwt" /\ last.tok \in IssuedRefresh)
          => (~last.ok /\ Outcome(last.detail) = "WrongType")

(* C7 as the code has it: both fail at the signature check, made with the   *)
(* secret of the other class, before any token_type test.                   *)
C7_CrossClassFailsOnSignature ==
    /\ (last.op \in RefreshOps /\ last.tok \in IssuedAccess)
          => (~last.ok /\ last.detail = "Invalid token signature")
    /\ (last.op = "verify_jwt" /\ last.tok \in IssuedRefresh)
          => (~last.ok /\ last.detail = "Invalid token format")

C7_Witness ==
    /\ last.op = "verify" /\ last.tok \in IssuedAccess /\ ~last.ok
    /\ ~Unexpired(last.tok)

(* C8: a correctly signed refresh token whose exp is in the past fails      *)
(* verify_refresh_token with the Expired outcome, blacklisted or not.       *)
C8_ExpiredReportsExpired ==
    (last.op = "verify" /\ last.tok \in IssuedRefresh /\ last.expired) =>
        (~last.ok /\ Outcome(last.detail) = "Expired")

(* C9: with an access secret equal to the refresh secret, or with a secret  *)
(* missing, construction fails and leaves no instance; no pair is ever      *)
(* generated by a service whose secrets are equal or missing.               *)
BadSecrets(a, r) == NoValue(a) \/ NoValue(r) \/ a = r

C9_EqualOrMissingSecretsRejected ==
    /\ cfg # NoCfg => ~BadSecrets(cfg.access_secret, cfg.refresh_secret)
    /\ (/\ last.op = "get_token_service"
        /\ BadSecrets(env.jwt_secret_key, env.jwt_refresh_token_secret_key))
          => (~last.ok /\ cfg = NoCfg)
    /\ last.op = "generate" =>
          \A i \in issued : i.pair.access_token.key # i.pair.refresh_token.key

C9_Witness ==
    /\ last.op = "get_token_service" /\ ~last.ok
    /\ env.jwt_secret_key = env.jwt_refresh_token_secret_key
    /\ SecretLen(env.jwt_secret_key) >= MinSecretLen
    /\ validate_refresh_token_expire_days(env) = "ok"

(* C10: generate_token_pair is never reached with a configuration whose     *)
(* access or refresh secret is shorter than the minimum length or whose     *)
(* access or refresh TTL is not positive.                                   *)
C10_WeakConfigRejected ==
    last.op = "generate" =>
        /\ SecretLen(cfg.access_secret) >= MinSecretLen
        /\ SecretLen(cfg.refresh_secret) >= MinSecretLen
        /\ cfg.access_minutes > 0
        /\ cfg.refresh_days > 0

(* C11: every pair generate_token_pair or rotate_refresh_token returned has  *)
(* access_expires_in = access TTL minutes x 60, refresh_expires_in =        *)
(* refresh TTL days x 86400 and token_type "bearer"; under the default      *)
(* TTLs of 30 minutes and 7 days these are 1800 and 604800.                 *)
C11_ExpiresInSeconds ==
    \A p \in pairs :
        /\ p.access_expires_in = cfg.access_minutes * SecondsPerMinute
        /\ p.refresh_expires_in = cfg.refresh_days * SecondsPerDay
        /\ p.token_type = "bearer"
        /\ (cfg.access_minutes = 30 /\ cfg.refresh_days = 7)
              => (p.access_expires_in = 1800 /\ p.refresh_expires_in = 604800)

C11_Witness ==
    /\ last.op = "rotate" /\ last.ok
    /\ last.pair \in pairs
    /\ \E i \in issued : i.pair # last.pair /\ i.pair.refresh_token = last.tok
    /\ cfg.access_minutes = 30 /\ cfg.refresh_days = 7

(* C12: the refresh-token strings returned by generate_token_pair and       *)
(* rotate_refresh_token are pairwise distinct, concurrent calls for the     *)
(* same user at the same clock value included: a call that returns a pair   *)
(* returns a refresh token no earlier call returned, and a rotation never   *)
(* returns the token it was given.                                          *)
C12_RefreshTokensDistinct ==
    [][(last'.op \in {"generate", "rotate"} /\ last'.ok) =>
          /\ last'.pair.refresh_token \notin IssuedRefresh
          /\ last'.pair.refresh_token # last'.tok]_vars

(* two rotations of one token ran concurrently and both returned a pair *)
C12_Witness ==
    \E r1, r2 \in rotated :
        /\ r1 # r2
        /\ r1.old = r2.old
        /\ r1.pair.refresh_token.claims.iat = r2.pair.refresh_token.claims.iat

(* C13: for a pair (A, T) that generate_token_pair returned, a rotation of  *)
(* T that returns gives an access token other than A and a refresh token    *)
(* other than T, also within the clock second of the issuance.              *)
C13_RotationChangesBothTokens ==
    \A r \in rotated : \A i \in issued :
        i.pair.refresh_token = r.old =>
            /\ r.pair.access_token # i.pair.access_token
            /\ r.pair.refresh_token # r.old

(* C14: the access token and the refresh token a rotation returns carry the *)
(* subject (sub) of the refresh token it consumed.                          *)
C14_RotationKeepsSubject ==
    \A r \in rotated :
        /\ r.pair.access_token.claims.sub = r.old.claims.sub
        /\ r.pair.refresh_token.claims.sub = r.old.claims.sub

(* a rotation in the lineage of one user while another user holds a pair *)
C14_Witness ==
    /\ \E r \in rotated : r.old.claims.sub = "U2"
    /\ \E i \in issued : i.user_id = "U1"

(* C15: is_token_near_expiry(token, buffer_minutes) never raises; for a     *)
(* token no secret decodes it returns true; for a decodable token it        *)
(* returns true exactly when exp is at or before now + buffer_minutes: true *)
(* for a token made to expire in 4 minutes and the default buffer, false    *)
(* for one made to expire in 20 minutes.                                    *)
Decodable(tok) == tok.form = "jwt" /\ tok.key \in {cfg.access_secret, cfg.refresh_secret}

TicksLeft(tok) == tok.claims.exp * SubSec - clock

C15_NearExpiryExact ==
    last.op = "near_expiry" =>
        /\ last.ok
        /\ ~Decodable(last.tok) => last.value
        /\ Decodable(last.tok) =>
              (last.value <=> TicksLeft(last.tok) <= last.arg * 60 * SubSec)
        /\ (last.tok = CustomExpiryToken(4) /\ last.arg = 5) => last.value
        /\ (last.tok = CustomExpiryToken(20) /\ last.arg = 5) => ~last.value

(* asked about an issued access token in the instant the buffer ends *)
C15_Witness ==
    /\ last.op = "near_expiry" /\ last.value
    /\ last.tok \in IssuedAccess
    /\ TicksLeft(last.tok) = last.arg * 60 * SubSec
    /\ clock > 0

(* C16: every failure of verify_refresh_token and rotate_refresh_token, for *)
(* any input string, is one of the HTTP 401 exceptions the except clauses   *)
(* of verify_refresh_token raise, with a detail that is not empty, and      *)
(* comes with no payload and no pair.                                       *)
RefreshDenials ==
    {"Invalid token signature", "Refresh token has expired",
     "Invalid refresh token format", "Token validation failed"}

C16_FailuresAreDenials ==
    (last.op \in RefreshOps /\ ~last.ok) =>
        /\ last.detail \in RefreshDenials
        /\ last.detail # ""
        /\ last.claims = NoClaims
        /\ last.pair = NoPair

(* a rotation refused for a token both consumed and past its expiry *)
C16_Witness ==
    /\ last.op = "rotate" /\ ~last.ok
    /\ last.consumed /\ last.expired

(* C17: get_token_service constructs at most one TokenService, concurrent   *)
(* first calls included: a call constructs only while no instance exists,   *)
(* and an instance once set is the one every later call returns.            *)
C17_OneInstance ==
    [][/\ (last'.op = "get_token_service" /\ last'.value) => cfg = NoCfg
       /\ cfg # NoCfg => cfg' = cfg
       /\ (last'.op = "get_token_service" /\ last'.ok) => cfg' # NoCfg]_vars

(* a thread that saw no instance holds the lock after another constructed *)
C17_Witness ==
    /\ cfg # NoCfg
    /\ \E t \in Threads : pc[t] = "g_cs"

(* C18: verify_jwt_token accepts a token only if its signature verifies     *)
(* under the access secret and it is unexpired; no fixed token value is     *)
(* accepted without verification.                                           *)
C18_NoBypass ==
    (last.op = "verify_jwt" /\ last.ok) =>
        /\ last.tok.form = "jwt"
        /\ last.tok.key = cfg.access_secret
        /\ last.tok.claims.exp >= NowSeconds

(* C19: the outcome of verify_jwt_token is fixed by the token, the access   *)
(* secret and the clock, whatever the blacklists hold: a token that is the  *)
(* mock value, or signed with the access secret, carrying an email and      *)
(* before its exp, is accepted; a token not signed with it or past its exp  *)
(* second is refused (within the exp second the library decides).           *)
AccessSigned(tok) ==
    tok.form = "jwt" /\ tok.key = cfg.access_secret /\ tok.claims.email # Absent

C19_AccessIgnoresRegistry ==
    last.op = "verify_jwt" =>
        /\ (last.tok = MockToken \/ (AccessSigned(last.tok) /\ Unexpired(last.tok)))
              => last.ok
        /\ (last.tok # MockToken /\ (~AccessSigned(last.tok) \/ NowSeconds > last.tok.claims.exp))
              => ~last.ok

(* the access token of a pair whose refresh token was consumed and whose    *)
(* family was revoked                                                       *)
C19_Witness ==
    /\ last.op = "verify_jwt" /\ last.ok
    /\ \E i \in issued : /\ i.pair.access_token = last.tok
                         /\ i.pair.refresh_token \in bl_tokens
                         /\ i.pair.refresh_token.claims.fam \in bl_families

(* C20: under every configuration TokenService can be constructed with,     *)
(* each access token and each refresh token handed out has iat < exp, and   *)
(* the refresh token of a pair expires later than its access token.         *)
C20_IatBeforeExp ==
    \A p \in pairs :
        /\ p.access_token.claims.iat < p.access_token.claims.exp
        /\ p.refresh_token.claims.iat < p.refresh_token.claims.exp
        /\ p.access_token.claims.exp < p.refresh_token.claims.exp

(* C21: every configuration Settings and TokenService accept has a refresh  *)
(* TTL, in minutes, of more than ten times the access TTL.                  *)
C21_RefreshTenTimesAccess ==
    cfg # NoCfg => cfg.refresh_days * 24 * 60 > 10 * cfg.access_minutes

(* C22: verify_refresh_token applies (1) decode and signature under the     *)
(* refresh secret, (2) token_type is refresh, (3) token string or family    *)
(* blacklisted, (4) exp not in the past, and reports the first check that   *)
(* fails in this order: a correctly signed refresh token that is both       *)
(* blacklisted and expired is reported as Blacklisted.                      *)
C22_FirstFailingCheckReported ==
    (last.op \in RefreshOps /\ ~last.ok) =>
        IF ~(last.tok.form = "jwt" /\ last.tok.key = cfg.refresh_secret)
        THEN Outcome(last.detail) \in {"SignatureInvalid", "Malformed"}
        ELSE IF last.tok.claims.typ # "refresh"
        THEN Outcome(last.detail) = "WrongType"
        ELSE IF \/ last.tok \in bl_tokens
                \/ last.tok.claims.fam \in bl_families
        THEN Outcome(last.detail) = "Blacklisted"
        ELSE Outcome(last.detail) = "Expired"

(* C23: a rotation whose verification fails reports what the verification   *)
(* raised, unchanged, and does nothing else: it generates no pair, draws no *)
(* uuid, adds nothing to either blacklist, and ends (no retry).             *)
EntryDenial(tok) ==
    IF JoseDecode(tok, cfg.refresh_secret, NowSeconds, TRUE) # "ok"
    THEN VerifyHandler("JWTError", JoseDecode(tok, cfg.refresh_secret, NowSeconds, TRUE))
    ELSE "Token validation failed"

C23_FailedRotationOnlyReports ==
    [][(last'.op = "rotate" /\ ~last'.ok) =>
          LET ending == {t \in Threads : call[t].op = "rotate" /\ call'[t] = NoCall} IN
          /\ IF ending = {}
             THEN /\ last'.detail = EntryDenial(last'.tok)
                  /\ UNCHANGED <<pc, call>>
             ELSE \A t \in ending :
                     /\ pc'[t] = "idle"
                     /\ call[t].tok = last'.tok
                     /\ call[t].pair = NoPair
                     /\ last'.detail = "Token validation failed"
          /\ last'.pair = NoPair
          /\ UNCHANGED <<bl_tokens, bl_families, issued, rotated, uuids>>]_vars

(* a rotation refused for a token of a revoked family: the token is not in  *)
(* the token blacklist afterwards                                           *)
C23_Witness ==
    /\ last.op = "rotate" /\ ~last.ok /\ last.revoked
    /\ last.tok \in IssuedRefresh
    /\ last.tok \notin bl_tokens

(* C24: when rotate_refresh_token(T) returns its pair, T is in the token    *)
(* blacklist, and stays there: no pair produced by rotating T exists while  *)
(* T is not blacklisted.                                                    *)
C24_ConsumedIsBlacklisted ==
    /\ (last.op = "rotate" /\ last.ok) => last.tok \in bl_tokens
    /\ \A r \in rotated : r.old \in bl_tokens

(* a rotation returned while another thread is still rotating the same token *)
C24_Witness ==
    /\ last.op = "rotate" /\ last.ok
    /\ \E t \in Threads : call[t].op = "rotate" /\ call[t].tok = last.tok

(* C25: one mutex guards both blacklist sets.  A thread is inside one of    *)
(* the five with-blocks exactly when it holds the lock, so at most one is;  *)
(* a thread that decodes or signs (at idle or r_gen) does not hold it; and  *)
(* either set changes only in a step of the lock holder, which releases.    *)
InBlock == {"v_fam_cs", "v_tok_cs", "r_bl_cs", "b_tok_cs", "b_fam_cs"}

C25_LockGuardsSetsOnly ==
    /\ [](\A t \in Threads : pc[t] \in InBlock <=> lock = t)
    /\ [][(bl_tokens' # bl_tokens \/ bl_families' # bl_families) =>
             /\ lock \in Threads
             /\ pc[lock] \in {"r_bl_cs", "b_tok_cs", "b_fam_cs"}
             /\ lock' = 0]_vars
    /\ [][(uuids' # uuids \/ last'.op \in {"generate", "verify_jwt", "near_expiry"}) =>
             \E t \in Threads : pc[t] \in {"idle", "r_gen"} /\ lock # t]_vars

(* one thread is about to sign a pair while the other holds the lock *)
C25_Witness ==
    /\ lock \in Threads
    /\ \E t \in Threads : pc[t] = "r_gen"

(* C26: extract_token_metadata(token, class) succeeds for every token       *)
(* signed with the secret of the class, expired or not, blacklisted or not, *)
(* and returns its subject, issue and expiry instants, and the family of a  *)
(* refresh token; it fails for a token not signed with that secret.         *)
C26_MetadataOfSignedTokens ==
    /\ \A c \in {"access", "refresh"} :
          last.op = "metadata_" \o c =>
             LET tok == last.tok
                 signed == tok.form = "jwt" /\ tok.key = ClassSecret(c) IN
             /\ last.ok <=> signed
             /\ last.ok =>
                   /\ last.claims.sub = tok.claims.sub
                   /\ last.claims.iat = tok.claims.iat * SubSec
                   /\ last.claims.exp = tok.claims.exp * SubSec
                   /\ c = "refresh" => last.claims.fam = tok.claims.fam

(* metadata of a refresh token that is blacklisted and past its expiry *)
C26_Witness ==
    /\ last.op = "metadata_refresh" /\ last.ok
    /\ last.tok \in bl_tokens
    /\ clock > last.tok.claims.exp * SubSec

(* C27: the email of the access token returned by a rotation is the email   *)
(* of the pair whose refresh token was presented (hence, along a chain, the *)
(* email the lineage was issued for), or the email on record for the        *)
(* subject.                                                                 *)
C27_RotationKeepsEmail ==
    \A r \in rotated : \A i \in issued :
        i.pair.refresh_token = r.old =>
            r.pair.access_token.claims.email \in
                {i.pair.access_token.claims.email} \cup
                {id[2] : id \in {d \in Identities : d[1] = r.old.claims.sub}}

(* C28: the two blacklist sets change only in a blacklist_token call (the   *)
(* given token is added), a blacklist_token_family call (the given family   *)
(* is added) and a successful rotate_refresh_token (exactly the presented   *)
(* token is added, no family); every other operation and every failed       *)
(* rotation leaves both sets as they were, and no entry is ever removed.    *)
C28_BlacklistFrame ==
    [][/\ bl_tokens \subseteq bl_tokens'
       /\ bl_families \subseteq bl_families'
       /\ (bl_tokens' # bl_tokens \/ bl_families' # bl_families) =>
             /\ last'.ok
             /\ \/ /\ last'.op \in {"rotate", "blacklist_token"}
                   /\ bl_tokens' = bl_tokens \cup {last'.tok}
                   /\ bl_families' = bl_families
                \/ /\ last'.op = "blacklist_token_family"
                   /\ bl_families' = bl_families \cup {last'.claims.fam}
                   /\ bl_tokens' = bl_tokens
       /\ (last' # last /\ last'.op \notin {"none", "blacklist_token", "blacklist_token_family"}
              /\ ~(last'.op = "rotate" /\ last'.ok)) =>
             /\ bl_tokens' = bl_tokens
             /\ bl_families' = bl_families]_vars

(* a rotation has returned while some family other than the token's own is *)
(* revoked: the presented token is blacklisted, its family is not          *)
C28_Witness ==
    /\ last.op = "rotate" /\ last.ok
    /\ last.tok \in bl_tokens
    /\ bl_families # {}
    /\ last.tok.claims.fam \notin bl_families

(* C29: presenting again a refresh token T that a rotation has consumed     *)
(* fails and changes nothing, so the token T' that rotation returned stays  *)
(* valid: as long as T' is not expired, not itself blacklisted and its      *)
(* family not revoked, verify_refresh_token(T') succeeds and                *)
(* rotate_refresh_token(T') succeeds the first time.                        *)
Consumed == {r.old : r \in rotated}

C29_ReplayKeepsSuccessor ==
    /\ [][(last' # last /\ last'.op \in RefreshOps /\ last'.consumed) =>
             /\ ~last'.ok
             /\ bl_tokens' = bl_tokens
             /\ bl_families' = bl_families
             /\ rotated' = rotated]_vars
    /\ [](\A r \in rotated :
            (/\ last.op \in RefreshOps
             /\ last.tok = r.pair.refresh_token
             /\ ~last.consumed
             /\ last.tok \notin bl_tokens \ Consumed
             /\ last.tok.claims.fam \notin bl_families
             /\ Unexpired(last.tok)) => last.ok)

(* the consumed token has just been refused while its successor is still *)
(* unexpired, unconsumed and not revoked                                 *)
C29_Witness ==
    /\ last.op \in RefreshOps /\ ~last.ok /\ last.consumed
    /\ \E r \in rotated :
          /\ r.old = last.tok
          /\ r.pair.refresh_token \notin bl_tokens
          /\ r.pair.refresh_token.claims.fam \notin bl_families
          /\ Unexpired(r.pair.refresh_token)

(* C30: under any interleaving of concurrent calls no thread waits for    *)
(* ever: a lock is held exactly by a thread inside the block it guards,  *)
(* hence released on every way out, errors included; a thread about to   *)
(* acquire a lock never owns it or the other lock; and, with fair        *)
(* scheduling, every started operation returns or raises.                *)
AtAcquire == {"v_fam", "v_tok", "r_bl", "b_tok", "b_fam", "g_lock"}

C30_NoThreadWaitsForever ==
    /\ [](\A t \in Threads :
            /\ lock = t <=> pc[t] \in InBlock
            /\ slock = t <=> pc[t] = "g_cs"
            /\ pc[t] \in AtAcquire => (lock # t /\ slock # t))
    /\ \A t \in Threads : (pc[t] # "idle") ~> (pc[t] = "idle")

(* both threads inside calls, one holding _blacklist_lock and the other *)
(* waiting to enter a block it guards                                   *)
C30_Witness ==
    \E t, u \in Threads :
        /\ t # u
        /\ lock = t
        /\ pc[u] \in AtAcquire \ {"g_lock"}

====
